---------------------------- MODULE Spec2Model ----------------------------
(***************************************************************************)
(* A model of src/dviexport.cpp: the classes DVIExport, DVIExportToPDF     *)
(* and DVIExportToPS, which run dvipdfm / dvips as a child process from    *)
(* an event-driven GUI thread.                                             *)
(*                                                                         *)
(* Each export request is one DVIExport object.  The constructor validates *)
(* the document, optionally writes a renumbered temporary copy, creates    *)
(* the progress dialog and starts the child.  Afterwards the object is     *)
(* driven by three events of the event loop: output of the child           *)
(* (output_receiver), exit of the child (finished -> finished_impl) and    *)
(* the progress dialog's finished() signal (abort_process ->               *)
(* abort_process_impl).  The build modelled is the one the source selects: *)
(* DVIEXPORT_USE_QPROCESS is not defined (line 40), so KProcess is used.   *)
(***************************************************************************)
EXTENDS Integers, Sequences, FiniteSets, TLC

\* The export requests that may be created in one run of the model.
Req == {1, 2}

\* ------------------------------------------------------------------ names
NoName == ""
DviFileName == "doc.dvi"
CallerPS == "out.ps"
DialogPS == "save.ps"
DialogPDF == "save.pdf"
TmpNames == <<"qt_temp.1", "qt_temp.2">>
\* TmpName that gives every request the same name.
Mutant_TmpName_shared(r) == TmpNames[1]
\* QTemporaryFile::fileName(): a name no other request has.
TmpName(r) == TmpNames[r]
OutputFiles == {CallerPS, DialogPS, DialogPDF}
Files == OutputFiles \cup {TmpName(r) : r \in Req}
FileStates == {"absent", "readable"}

DvipsError == "dvips reported an error"
DvipdfmError == "dvipdfm reported an error"

\* The option lists a caller passes to DVIExportToPS.
OptionLists == {<< >>, <<"-pp", "3">>}

\* Largest page count of a document.
MaxPages == 2

\* The documents parent.dviFile may point to when a constructor runs:
\* present = FALSE is the null pointer.
Docs ==
  { [present |-> FALSE, fileOK |-> FALSE, pageOffsetEmpty |-> TRUE,
     total_pages |-> 0, numberOfExternalNONPSFiles |-> 0,
     suggestedPageSize |-> 0] }
  \cup
  [present : {TRUE}, fileOK : BOOLEAN, pageOffsetEmpty : BOOLEAN,
   total_pages : 0..MaxPages, numberOfExternalNONPSFiles : 0..1,
   suggestedPageSize : 0..1]

\* ------------------------------------------------------- find_exe (PATH)
\* A path is a sequence of characters.  Unset is the value of getenv for a
\* variable that is not set.
Chars == {"/", "a", "b", ":"}
Unset == <<"unset">>
DirA == <<"/", "a", "/">>
DirB == <<"/", "b", "/">>
\* The directories in which the executable may lie.
Dirs == {DirA, DirB}
\* The state of a file: missing, usable, or existing but not readable or
\* not executable.
ExeStates == {"absent", "ok", "unreadable", "notexec"}

\* Longest value of PATH, in characters.
MaxPathLen == 5
PathStrings == UNION {[1..k -> Chars] : k \in 0..MaxPathLen}

\* The environments a constructor may run in.  attr[d] is the state of
\* the file d<exe>; absolute: the name asked for is an absolute path, and
\* own is then the state of that file.
ExeEnvs ==
  [PATH : {Unset, << >>, <<"/", "a", ":", "/", "b">>},
   attr : {[d \in Dirs |-> "absent"],
           [d \in Dirs |-> IF d = DirB THEN "ok" ELSE "absent"],
           [d \in Dirs |-> IF d = DirB THEN "ok" ELSE "notexec"],
           [d \in Dirs |-> "ok"]},
   absolute : {FALSE}, own : {"absent"}]

\* QString::split(':'): the parts between the separators, empty ones kept.
RECURSIVE Split(_)
Split(s) ==
  IF \A i \in DOMAIN s : s[i] # ":" THEN <<s>>
  ELSE LET k == CHOOSE i \in DOMAIN s :
                  s[i] = ":" /\ \A j \in 1..(i - 1) : s[j] # ":"
       IN  <<SubSeq(s, 1, k - 1)>> \o Split(SubSeq(s, k + 1, Len(s)))

\* get_env_path: the list of directories of the variable; empty when the
\* variable is unset or empty.
get_env_path(env) ==
  IF env.PATH = Unset \/ env.PATH = << >> THEN << >> ELSE Split(env.PATH)

\* it->endsWith("/") ? *it : *it + '/'
WithSlash(dir) ==
  IF dir # << >> /\ dir[Len(dir)] = "/" THEN dir ELSE dir \o <<"/">>

\* The state of the file dir<exe>.
Candidate(attr, dir) ==
  IF WithSlash(dir) \in DOMAIN attr THEN attr[WithSlash(dir)] ELSE "absent"

Usable(state) == state = "ok"

\* find_in_path that goes on to the next directory after a candidate that
\* exists but is not usable.
RECURSIVE Mutant_find_in_path_falls_through(_, _, _)
Mutant_find_in_path_falls_through(path, i, attr) ==
  IF i > Len(path) THEN FALSE
  ELSE IF Usable(Candidate(attr, path[i])) THEN TRUE
  ELSE Mutant_find_in_path_falls_through(path, i + 1, attr)

\* The loop of find_exe over the directories (lines 232-240).
RECURSIVE find_in_path(_, _, _)
find_in_path(path, i, attr) ==
  IF i > Len(path) THEN FALSE
  ELSE IF Candidate(attr, path[i]) # "absent"
       THEN Usable(Candidate(attr, path[i]))
  ELSE find_in_path(path, i + 1, attr)

\* find_exe: an absolute name is checked itself; for a relative name such
\* as "dvips" the first directory of PATH in which the file exists decides.
find_exe(env) ==
  IF env.absolute THEN Usable(env.own)
  ELSE LET path == get_env_path(env)
       IN  IF path = << >> THEN FALSE ELSE find_in_path(path, 1, env.attr)

\* ------------------------------------------------------------------ state
VARIABLES
  obj,            \* [Req -> "unborn" | "alive" | "destroyed"]: the object
  kind,           \* [Req -> "none" | "PS" | "PDF"]: its dynamic type
  started_,       \* DVIExport::started_
  process_,       \* DVIExport::process_: "null" | "live"
  progress_,      \* DVIExport::progress_: "null" | "hidden" | "visible"
  connected,      \* progress_'s finished() is connected to abort_process()
  printer_,       \* DVIExportToPS::printer_ is non-null
  output_name_,   \* DVIExportToPS::output_name_
  tmpfile_name_,  \* DVIExportToPS::tmpfile_name_
  error_message_, \* DVIExport::error_message_
  kprocess,       \* the KProcess started for the request and its child
  fs,             \* the filesystem: [Files -> FileStates]
  all_exports_,   \* the owner's collection of active requests
  handled,        \* per request, the handlers run so far, in order
  errorBox,       \* per request, the messages shown by KMessageBox::error
  printed,        \* per request, the files handed to printFiles
  notified,       \* per request, the number of export_finished(this) calls
  given,          \* per request, the arguments and document it was given
  saved,          \* per request, the path newFile.saveAs wrote ("" if none)
  requests,       \* the requests that may be created in this run
  detail,         \* the run records what a request was shown and told
  probe,          \* a call of find_exe: its environment and its result
  arrived,        \* per request, the (buffer, buflen) output_receiver got
  info,           \* per request, the texts passed to update_info_dialog
  reentered,      \* per request, hide() called abort_process() in a handler
  seen,           \* per request, what its constructor saw and asked
  parent          \* the dviRenderer: dviFile, current_page, scan pointers

objvars == <<obj, kind, started_, process_, progress_, connected, printer_,
             output_name_, tmpfile_name_, error_message_>>
obsvars == <<handled, errorBox, printed, notified, given, saved>>
\* What no handler and no constructor changes.
runvars == <<requests, detail, probe>>
\* What output_receiver is given and what it passes on.
outvars == <<arrived, info>>
\* What only a constructor changes.
ctorvars == <<seen, parent>>
vars == <<objvars, kprocess, fs, all_exports_, obsvars, runvars, outvars,
          reentered, seen, parent>>

\* object: the KProcess object exists (process_ points to it until it is
\* deleted); child: "none" | "running" | "exited" (the exit is not yet
\* notified) | "reaped" (processExited was emitted) | "killed".
NoProcess ==
  [object |-> FALSE, command |-> NoName, args |-> << >>, wd |-> NoName,
   child |-> "none", normalExit |-> FALSE, exitStatus |-> 0]

NotGiven ==
  [valid |-> FALSE, options |-> << >>, printer |-> FALSE,
   sizeOrOptions |-> FALSE, input |-> NoName]

\* Nothing is recorded of the request's constructor.  pages, emptyTable:
\* total_pages and page_offset.isEmpty() of the document; othersOK: every
\* check but those of the page table succeeds; interactive: the file
\* dialog supplied the output name; existed: that file existed; asked:
\* the overwrite question was asked; cancelled: it was answered Cancel.
NotSeen ==
  [recorded |-> FALSE, pages |-> 0, emptyTable |-> FALSE, othersOK |-> FALSE,
   interactive |-> FALSE, existed |-> FALSE, asked |-> FALSE,
   cancelled |-> FALSE]

\* The renderer before an export: it shows the document, and its scanning
\* state points into the document.
Renderer(page) ==
  [dviFile |-> "document", current_page |-> page,
   command_pointer |-> "document", end_pointer |-> "document",
   fonttable |-> "document"]

\* No call of find_exe is looked at.
NoProbe ==
  [env |-> [PATH |-> Unset, attr |-> [d \in Dirs |-> "absent"],
            absolute |-> FALSE, own |-> "absent"],
   done |-> FALSE, found |-> FALSE]

\* DVIExport::DVIExport: started_(false), process_(0), progress_(0).
NoRequests ==
  /\ obj = [r \in Req |-> "unborn"]
  /\ kind = [r \in Req |-> "none"]
  /\ started_ = [r \in Req |-> FALSE]
  /\ process_ = [r \in Req |-> "null"]
  /\ progress_ = [r \in Req |-> "null"]
  /\ connected = [r \in Req |-> FALSE]
  /\ printer_ = [r \in Req |-> FALSE]
  /\ output_name_ = [r \in Req |-> NoName]
  /\ tmpfile_name_ = [r \in Req |-> NoName]
  /\ error_message_ = [r \in Req |-> NoName]
  /\ kprocess = [r \in Req |-> NoProcess]
  /\ all_exports_ = {}
  /\ handled = [r \in Req |-> << >>]
  /\ errorBox = [r \in Req |-> << >>]
  /\ printed = [r \in Req |-> << >>]
  /\ notified = [r \in Req |-> 0]
  /\ given = [r \in Req |-> NotGiven]
  /\ saved = [r \in Req |-> NoName]
  /\ arrived = [r \in Req |-> << >>]
  /\ info = [r \in Req |-> << >>]
  /\ reentered = [r \in Req |-> FALSE]
  /\ seen = [r \in Req |-> NotSeen]

\* Two requests may be created, one after the other or side by side.
Init ==
  /\ NoRequests
  /\ fs = [f \in Files |-> "absent"]
  /\ parent = Renderer(0)
  /\ requests = Req
  /\ detail = FALSE
  /\ probe = NoProbe

\* ------------------------------------------------------------ small steps
\* Requests are numbered in the order of their creation.
IsNext(r) == r \in requests /\ \A q \in Req : q < r => obj[q] # "unborn"

Exists(f) == fs[f] # "absent"
Readable(f) == fs[f] = "readable"

\* PSValidation without the test of page_offset.isEmpty() (line 327).
Mutant_PSValidation_no_page_table(doc, exeFound, output_name, dlgName, promptCancel) ==
  IF ~doc.present THEN "no_dvi"
  ELSE IF ~doc.fileOK THEN "unreadable"
  ELSE IF doc.numberOfExternalNONPSFiles # 0 THEN "non_ps"
  ELSE IF ~exeFound THEN "no_exe"
  ELSE IF output_name # NoName THEN "ok"
  ELSE IF dlgName = NoName THEN "declined"
  ELSE IF promptCancel THEN "cancelled"
  ELSE "ok"

\* PSValidation without the test of numberOfExternalNONPSFiles (line 330).
Mutant_PSValidation_no_nonps(doc, exeFound, output_name, dlgName, promptCancel) ==
  IF ~doc.present THEN "no_dvi"
  ELSE IF ~doc.fileOK THEN "unreadable"
  ELSE IF doc.pageOffsetEmpty THEN "no_pages"
  ELSE IF ~exeFound THEN "no_exe"
  ELSE IF output_name # NoName THEN "ok"
  ELSE IF dlgName = NoName THEN "declined"
  ELSE IF promptCancel THEN "cancelled"
  ELSE "ok"

\* The synchronous checks of DVIExportToPS::DVIExportToPS, in the order of
\* the code; the result names the return that is taken ("ok": none).
\* promptCancel: the overwrite question was answered with Cancel.
PSValidation(doc, exeFound, output_name, dlgName, promptCancel) ==
  IF ~doc.present THEN "no_dvi"
  ELSE IF ~doc.fileOK THEN "unreadable"
  ELSE IF doc.pageOffsetEmpty THEN "no_pages"
  ELSE IF doc.numberOfExternalNONPSFiles # 0 THEN "non_ps"
  ELSE IF ~exeFound THEN "no_exe"
  ELSE IF output_name # NoName THEN "ok"
  ELSE IF dlgName = NoName THEN "declined"
  ELSE IF promptCancel THEN "cancelled"
  ELSE "ok"

\* The synchronous checks of DVIExportToPDF::DVIExportToPDF.
PDFValidation(doc, exeFound, dlgName, promptCancel) ==
  IF ~doc.present THEN "no_dvi"
  ELSE IF ~doc.fileOK THEN "unreadable"
  ELSE IF ~exeFound THEN "no_exe"
  ELSE IF dlgName = NoName THEN "declined"
  ELSE IF promptCancel THEN "cancelled"
  ELSE "ok"

\* The overwrite question is asked when the code's test, !output.exists(),
\* holds.
AsksOverwrite(name) == ~Exists(name)

\* output_name_ as the PS constructor leaves it on the given return.
PSOutputName(outcome, output_name, dlgName) ==
  IF outcome \in {"no_dvi", "unreadable", "no_pages", "non_ps", "no_exe"}
  THEN NoName
  ELSE IF output_name # NoName THEN output_name ELSE dlgName

\* NeedsRewrite that looks at the options only.
Mutant_NeedsRewrite_options_only(options, doc) == options # << >>

\* if (!options.isEmpty() || dvi.suggestedPageSize != 0)
NeedsRewrite(options, doc) ==
  ~(options = << >> /\ doc.suggestedPageSize = 0)

\* dvips_args with the options appended after the output path.
Mutant_dvips_args_options_last(printer, options, input_name, output_name) ==
  (IF ~printer THEN <<"-z">> ELSE << >>)
    \o <<input_name, "-o", output_name>>
    \o options

\* args of dvips: -z without a printer, the options, input, -o, output.
dvips_args(printer, options, input_name, output_name) ==
  (IF ~printer THEN <<"-z">> ELSE << >>)
    \o (IF options # << >> THEN options ELSE << >>)
    \o <<input_name, "-o", output_name>>

\* args of dvipdfm: -o output input.
dvipdfm_args(output_name, filename) == <<"-o", output_name, filename>>

\* QFileInfo(dvi.filename).dirPath(true)
DirPath(filename) == "/home/user"

\* The output path in an argument vector: the element after "-o".
OutputArg(args) ==
  LET i == CHOOSE j \in 1..Len(args) : args[j] = "-o" IN args[i + 1]

\* initialise_progress_dialog that also shows the dialog.
Mutant_initialise_progress_dialog_shown(r) ==
  /\ progress_' = [progress_ EXCEPT ![r] = "visible"]
  /\ connected' = [connected EXCEPT ![r] = TRUE]

\* DVIExport::initialise_progress_dialog: the dialog is created, not shown,
\* and its finished() signal is connected to abort_process().
initialise_progress_dialog(r) ==
  /\ progress_' = [progress_ EXCEPT ![r] = "hidden"]
  /\ connected' = [connected EXCEPT ![r] = TRUE]

\* DVIExport::start: a new KProcess with command and args; started_ is set
\* when the process could be started (ok).
start(r, command, args, working_directory, error_message, ok) ==
  /\ process_[r] = "null"
  /\ process_' = [process_ EXCEPT ![r] = "live"]
  /\ kprocess' = [kprocess EXCEPT ![r] =
       [object |-> TRUE, command |-> command, args |-> args,
        wd |-> working_directory,
        child |-> IF ok THEN "running" ELSE "none",
        normalExit |-> FALSE, exitStatus |-> 0]]
  /\ error_message_' = [error_message_ EXCEPT ![r] = error_message]
  /\ started_' = [started_ EXCEPT ![r] = ok]

\* The owner keeps a request that started in its collection of active
\* requests.
Register(r, ok) ==
  all_exports_' = IF ok THEN all_exports_ \cup {r} ELSE all_exports_

\* What the caller gave the request: whether every precondition of the
\* export held (valid), the options and printer, whether the options are
\* non-empty or the document carries a page size, and the document's path.
Given(valid, options, printer, doc) ==
  [valid |-> valid, options |-> options, printer |-> printer,
   sizeOrOptions |-> (Len(options) > 0 \/ doc.suggestedPageSize > 0),
   input |-> DviFileName]

\* Some precondition of a PS export fails.
PSPreconditionFails(doc, exeFound, output_name, dlgName, promptCancel) ==
  \/ ~doc.present
  \/ ~doc.fileOK
  \/ doc.pageOffsetEmpty
  \/ doc.numberOfExternalNONPSFiles # 0
  \/ ~exeFound
  \/ (output_name = NoName /\ dlgName = NoName)
  \/ (output_name = NoName /\ promptCancel)

\* Some precondition of a PDF export fails.
PDFPreconditionFails(doc, exeFound, dlgName, promptCancel) ==
  \/ ~doc.present
  \/ ~doc.fileOK
  \/ ~exeFound
  \/ dlgName = NoName
  \/ promptCancel

\* A constructor that returns before anything is created.
EarlyReturn(r, k, printer, outname, valid) ==
  /\ obj' = [obj EXCEPT ![r] = "alive"]
  /\ kind' = [kind EXCEPT ![r] = k]
  /\ printer_' = [printer_ EXCEPT ![r] = printer]
  /\ output_name_' = [output_name_ EXCEPT ![r] = outname]
  /\ given' = [given EXCEPT ![r] = [NotGiven EXCEPT !.valid = valid]]
  /\ UNCHANGED <<started_, process_, progress_, connected, tmpfile_name_,
                 error_message_, kprocess, fs, all_exports_, handled,
                 errorBox, printed, notified, saved, runvars, outvars,
                 reentered, parent>>

\* quint16: parent.current_page and total_pages are 16 bits wide.
Quint16 == 65536

\* The loop of lines 417-435 from the page the renderer is at: each turn
\* sets the scan pointers into newFile's data and font table and goes on
\* to the next page.
RECURSIVE prescan_pages(_, _)
prescan_pages(p, total_pages) ==
  IF p.current_page < total_pages
  THEN prescan_pages([p EXCEPT !.command_pointer = "newFile",
                               !.end_pointer = "newFile",
                               !.fonttable = "newFile",
                               !.current_page = (@ + 1) % Quint16],
                     total_pages)
  ELSE p

\* Lines 411-438: the renderer is pointed at newFile, every page is
\* scanned, and current_page and dviFile are set back.
StripPageSizes(p, total_pages) ==
  LET saved_current_page == p.current_page
      saved_dvi == p.dviFile
      q == prescan_pages([p EXCEPT !.dviFile = "newFile",
                                   !.current_page = 0], total_pages)
  IN  [q EXCEPT !.current_page = saved_current_page, !.dviFile = saved_dvi]

\* What the constructor saw and asked is recorded in a run that looks at
\* one request in detail.
Record(r, sn) == seen' = IF detail THEN [seen EXCEPT ![r] = sn] ELSE seen

\* The rest of DVIExportToPS::DVIExportToPS once the checks passed
\* (lines 394-471).  kept: whether the file written by saveAs is still
\* there when the QTemporaryFile that supplied its name goes out of scope.
PSLaunch(r, doc, options, printer, outname, kept, ok, valid) ==
  LET rewrite == NeedsRewrite(options, doc)
      input_name == IF rewrite THEN TmpName(r) ELSE DviFileName
  IN  /\ obj' = [obj EXCEPT ![r] = "alive"]
      /\ kind' = [kind EXCEPT ![r] = "PS"]
      /\ printer_' = [printer_ EXCEPT ![r] = printer]
      /\ output_name_' = [output_name_ EXCEPT ![r] = outname]
      /\ tmpfile_name_' = [tmpfile_name_ EXCEPT ![r] =
                             IF rewrite THEN TmpName(r) ELSE NoName]
      /\ saved' = [saved EXCEPT ![r] = IF rewrite THEN input_name ELSE NoName]
      /\ fs' = IF rewrite /\ kept
               THEN [fs EXCEPT ![TmpName(r)] = "readable"] ELSE fs
      /\ parent' = IF rewrite THEN StripPageSizes(parent, doc.total_pages)
                   ELSE parent
      /\ initialise_progress_dialog(r)
      /\ start(r, "dvips", dvips_args(printer, options, input_name, outname),
               DirPath(DviFileName), DvipsError, ok)
      /\ Register(r, ok)
      /\ given' = [given EXCEPT ![r] = Given(valid, options, printer, doc)]
      /\ UNCHANGED <<handled, errorBox, printed, notified, runvars, outvars,
                 reentered>>

\* new DVIExportToPS(parent, parent_widget, output_name, options, printer)
ExportPS(r) ==
  /\ obj[r] = "unborn"
  /\ IsNext(r)
  /\ \E doc \in Docs, exeFound \in {find_exe(env) : env \in ExeEnvs},
        output_name \in {NoName, CallerPS}, dlgName \in {NoName, DialogPS},
        answer \in {"Continue", "Cancel"}, printer \in BOOLEAN :
       LET promptCancel == dlgName # NoName /\ AsksOverwrite(dlgName)
                             /\ answer = "Cancel"
           outcome == PSValidation(doc, exeFound, output_name, dlgName,
                                   promptCancel)
           outname == PSOutputName(outcome, output_name, dlgName)
           valid == ~PSPreconditionFails(doc, exeFound, output_name,
                                         dlgName, promptCancel)
           interactive ==
             /\ output_name = NoName
             /\ PSValidation(doc, exeFound, output_name, dlgName, FALSE) = "ok"
           sn == [recorded |-> TRUE, pages |-> doc.total_pages,
                  emptyTable |-> doc.pageOffsetEmpty,
                  othersOK |->
                    ~PSPreconditionFails(
                       [doc EXCEPT !.pageOffsetEmpty = FALSE], exeFound,
                       output_name, dlgName, promptCancel),
                  interactive |-> interactive,
                  existed |-> interactive /\ Exists(dlgName),
                  asked |-> interactive /\ AsksOverwrite(dlgName),
                  cancelled |-> interactive /\ promptCancel]
       IN  /\ Record(r, sn)
           /\ IF outcome # "ok"
              THEN EarlyReturn(r, "PS", printer, outname, valid)
              ELSE \E options \in OptionLists, kept \in BOOLEAN,
                      ok \in BOOLEAN :
                     PSLaunch(r, doc, options, printer, outname, kept, ok,
                              valid)

\* The rest of DVIExportToPDF::DVIExportToPDF once the checks passed
\* (lines 287-306).
PDFLaunch(r, doc, outname, ok, valid) ==
  /\ obj' = [obj EXCEPT ![r] = "alive"]
  /\ kind' = [kind EXCEPT ![r] = "PDF"]
  /\ initialise_progress_dialog(r)
  /\ start(r, "dvipdfm", dvipdfm_args(outname, DviFileName),
           DirPath(DviFileName), DvipdfmError, ok)
  /\ Register(r, ok)
  /\ given' = [given EXCEPT ![r] = Given(valid, << >>, FALSE, doc)]
  /\ UNCHANGED <<printer_, output_name_, tmpfile_name_, fs, handled,
                 errorBox, printed, notified, saved, runvars, outvars,
                 reentered, parent>>

\* new DVIExportToPDF(parent, parent_widget)
ExportPDF(r) ==
  /\ obj[r] = "unborn"
  /\ IsNext(r)
  /\ \E doc \in Docs, exeFound \in {find_exe(env) : env \in ExeEnvs},
        dlgName \in {NoName, DialogPDF}, answer \in {"Continue", "Cancel"} :
       LET promptCancel == dlgName # NoName /\ AsksOverwrite(dlgName)
                             /\ answer = "Cancel"
           outcome == PDFValidation(doc, exeFound, dlgName, promptCancel)
           valid == ~PDFPreconditionFails(doc, exeFound, dlgName,
                                          promptCancel)
           interactive == PDFValidation(doc, exeFound, dlgName, FALSE) = "ok"
           sn == [recorded |-> TRUE, pages |-> doc.total_pages,
                  emptyTable |-> doc.pageOffsetEmpty, othersOK |-> valid,
                  interactive |-> interactive,
                  existed |-> interactive /\ Exists(dlgName),
                  asked |-> interactive /\ AsksOverwrite(dlgName),
                  cancelled |-> interactive /\ promptCancel]
       IN  /\ Record(r, sn)
           /\ IF outcome # "ok"
              THEN EarlyReturn(r, "PDF", FALSE, NoName, valid)
              ELSE \E ok \in BOOLEAN : PDFLaunch(r, doc, dlgName, ok, valid)


\* ---------------------------------------------------------------- events
\* delete process_: the KProcess is destroyed, which kills its child if it
\* is still running.
Deleted(kp) ==
  [kp EXCEPT !.object = FALSE,
             !.child = IF @ = "running" THEN "killed" ELSE @]

\* disconnect that leaves the connection in place.
Mutant_disconnect_nothing(c) == c

\* disconnect(progress_, SIGNAL(finished()), 0, 0) (lines 124, 146): no
\* slot is connected to the signal afterwards.
disconnect(c) == FALSE

\* if (progress_->isVisible()) progress_->hide(): hiding the dialog emits
\* its finished() signal, which calls abort_process() from within the
\* handler when the signal is still connected (c).
HideReenters(r, c) == progress_[r] = "visible" /\ c

\* Lines 122-129: the dialog is disconnected, hidden and deleted.
DeleteProgress(r) ==
  /\ reentered' = [reentered EXCEPT ![r] =
                     @ \/ HideReenters(r, disconnect(connected[r]))]
  /\ progress_' = [progress_ EXCEPT ![r] = "null"]
  /\ connected' = [connected EXCEPT ![r] = FALSE]

\* Lines 144-149: the dialog is disconnected and hidden.
HideProgress(r) ==
  /\ reentered' = [reentered EXCEPT ![r] =
                     @ \/ HideReenters(r, disconnect(connected[r]))]
  /\ progress_' = [progress_ EXCEPT ![r] =
                     IF @ = "visible" THEN "hidden" ELSE @]
  /\ connected' = [connected EXCEPT ![r] =
                     IF progress_[r] # "null" THEN disconnect(@) ELSE @]

\* abort_process_impl without lines 133-134: the process is kept.
Mutant_abort_keeps_process(r) ==
  /\ DeleteProgress(r)
  /\ UNCHANGED <<process_, kprocess>>

\* abort_process_impl without line 133: process_ is reset, the KProcess is
\* not deleted.
Mutant_abort_leaks_process(r) ==
  /\ DeleteProgress(r)
  /\ process_' = [process_ EXCEPT ![r] = "null"]
  /\ UNCHANGED kprocess

\* DVIExport::abort_process_impl (lines 120-135): the dialog is
\* disconnected, hidden and deleted; the process is deleted.
DVIExport_abort_process_impl(r) ==
  /\ DeleteProgress(r)
  /\ process_' = [process_ EXCEPT ![r] = "null"]
  /\ kprocess' = [kprocess EXCEPT ![r] =
                    IF process_[r] = "live" THEN Deleted(@) ELSE @]

\* DVIExportToPS::abort_process_impl (lines 495-506): the temporary file is
\* removed, printer_ is reset, then the base class's part runs.
DVIExportToPS_abort_process_impl(r) ==
  /\ fs' = IF tmpfile_name_[r] # NoName
           THEN [fs EXCEPT ![tmpfile_name_[r]] = "absent"] ELSE fs
  /\ tmpfile_name_' = [tmpfile_name_ EXCEPT ![r] = NoName]
  /\ printer_' = [printer_ EXCEPT ![r] = FALSE]
  /\ DVIExport_abort_process_impl(r)

\* The condition under which finished_impl shows error_message_
\* (line 152, the KProcess build).
ShowsError(r) ==
  /\ process_[r] # "null"
  /\ kprocess[r].normalExit
  /\ kprocess[r].exitStatus # 0

\* The owner removes a request from its collection of active requests.
Unregister(r) == all_exports_' = all_exports_ \ {r}

\* parent_->export_finished(this) (line 158).
export_finished(r) ==
  /\ notified' = [notified EXCEPT ![r] = @ + 1]
  /\ Unregister(r)

\* finished_impl that returns after showing the error message.
Mutant_finished_returns_after_error(r) ==
  /\ HideProgress(r)
  /\ errorBox' = [errorBox EXCEPT ![r] =
                    IF ShowsError(r) THEN Append(@, error_message_[r]) ELSE @]
  /\ IF ShowsError(r) THEN UNCHANGED <<notified, all_exports_>>
     ELSE export_finished(r)

\* DVIExport::finished_impl (lines 139-159).
DVIExport_finished_impl(r) ==
  /\ HideProgress(r)
  /\ errorBox' = [errorBox EXCEPT ![r] =
                    IF ShowsError(r) THEN Append(@, error_message_[r]) ELSE @]
  /\ export_finished(r)

\* The condition under which DVIExportToPS::finished_impl hands the output
\* file to the printer (lines 481-485).
PrintsOutput(r) ==
  /\ printer_[r]
  /\ output_name_[r] # NoName
  /\ Exists(output_name_[r])
  /\ Readable(output_name_[r])

\* DVIExportToPS::finished_impl (lines 476-492).
DVIExportToPS_finished_impl(r) ==
  /\ printed' = [printed EXCEPT ![r] =
                   IF PrintsOutput(r) THEN Append(@, output_name_[r]) ELSE @]
  /\ DVIExport_finished_impl(r)

\* The buffer in which the KProcess hands on what the child wrote.
Buffers == {<<"x", "y">>}
\* The calls of output_receiver: buflen bytes of buffer are new, the rest
\* of the buffer holds what an earlier read left there.
Chunks ==
  UNION {{[buffer |-> b, buflen |-> n] : n \in -1..Len(b)} : b \in Buffers}
\* Most calls of output_receiver recorded for one request.
MaxChunks == 2

\* fromLocal8Bit that converts the whole buffer.
Mutant_fromLocal8Bit_whole(buffer, buflen) == buffer

\* QString::fromLocal8Bit(buffer, buflen): the first buflen bytes.
fromLocal8Bit(buffer, buflen) == SubSeq(buffer, 1, buflen)

\* DVIExport::output_receiver (lines 162-183).  The texts are recorded in
\* a run that looks at one request in detail.
output_receiver(r, buffer, buflen) ==
  IF buflen <= 0 \/ process_[r] = "null"
  THEN UNCHANGED <<info, progress_>>
  ELSE /\ info' = IF detail
                  THEN [info EXCEPT ![r] =
                          Append(@, fromLocal8Bit(buffer, buflen))]
                  ELSE info
       /\ progress_' = [progress_ EXCEPT ![r] =
                          IF @ # "null" THEN "visible" ELSE @]

\* The child writes to stdout or stderr and the KProcess, while it exists,
\* calls output_receiver(buffer, buflen).
ChildOutput(r) ==
  /\ obj[r] = "alive"
  /\ kprocess[r].object
  /\ kprocess[r].child = "running"
  /\ detail => Len(arrived[r]) < MaxChunks
  /\ \E chunk \in Chunks :
       /\ arrived' = IF detail THEN [arrived EXCEPT ![r] = Append(@, chunk)]
                     ELSE arrived
       /\ output_receiver(r, chunk.buffer, chunk.buflen)
  /\ UNCHANGED <<obj, kind, started_, process_, connected, printer_,
                 output_name_, tmpfile_name_, error_message_, kprocess, fs,
                 all_exports_, obsvars, runvars, reentered, ctorvars>>

\* The ways a child ends: normally with exit status 0 or 1, or abnormally
\* (killed by a signal); exitStatus() is not valid after an abnormal end
\* and may read as any value.
Exits == [normalExit : BOOLEAN, exitStatus : 0..1]

\* The child terminates.  It may have written its output file.
ChildExit(r) ==
  /\ kprocess[r].child = "running"
  /\ \E exit \in Exits, wrote \in FileStates :
       /\ kprocess' = [kprocess EXCEPT ![r] =
            [@ EXCEPT !.child = "exited", !.normalExit = exit.normalExit,
                      !.exitStatus = exit.exitStatus]]
       /\ fs' = IF wrote = "absent" THEN fs
                ELSE [fs EXCEPT ![OutputArg(kprocess[r].args)] = wrote]
  /\ UNCHANGED <<objvars, all_exports_, obsvars, runvars, outvars,
                 reentered, ctorvars>>

\* The KProcess, while it exists, emits processExited once for its child,
\* which calls the slot finished() and so the virtual finished_impl.
ExitNotification(r) ==
  /\ obj[r] = "alive"
  /\ kprocess[r].object
  /\ kprocess[r].child = "exited"
  /\ kprocess' = [kprocess EXCEPT ![r].child = "reaped"]
  /\ handled' = [handled EXCEPT ![r] = Append(@, "finished")]
  /\ IF kind[r] = "PS"
     THEN DVIExportToPS_finished_impl(r)
     ELSE DVIExport_finished_impl(r) /\ UNCHANGED printed
  /\ UNCHANGED <<obj, kind, started_, process_, printer_, output_name_,
                 tmpfile_name_, error_message_, fs, given, saved, runvars,
                 outvars, ctorvars>>

\* The user closes the progress dialog: its finished() signal, while
\* connected, calls the slot abort_process() and so the virtual
\* abort_process_impl.
UserCancel(r) ==
  /\ obj[r] = "alive"
  /\ progress_[r] = "visible"
  /\ connected[r]
  /\ handled' = [handled EXCEPT ![r] = Append(@, "abort")]
  /\ IF kind[r] = "PS"
     THEN DVIExportToPS_abort_process_impl(r)
     ELSE DVIExport_abort_process_impl(r)
            /\ UNCHANGED <<fs, tmpfile_name_, printer_>>
  /\ UNCHANGED <<obj, kind, started_, output_name_, error_message_,
                 all_exports_, errorBox, printed, notified, given, saved,
                 runvars, outvars, ctorvars>>

\* DVIExport::~DVIExport (lines 51-55), run when the owner drops the
\* request: the dialog and the process are deleted.  The object is gone
\* afterwards: its members read as after construction, and of the KProcess
\* only the fate of the child is kept.
Destroy(r) ==
  /\ obj[r] = "alive"
  /\ obj' = [obj EXCEPT ![r] = "destroyed"]
  /\ progress_' = [progress_ EXCEPT ![r] = "null"]
  /\ connected' = [connected EXCEPT ![r] = FALSE]
  /\ process_' = [process_ EXCEPT ![r] = "null"]
  /\ LET kp == IF process_[r] = "live" THEN Deleted(kprocess[r])
               ELSE kprocess[r]
     IN  kprocess' = [kprocess EXCEPT ![r] =
           [NoProcess EXCEPT !.object = kp.object, !.child = kp.child,
                             !.normalExit = kp.normalExit,
                             !.exitStatus = kp.exitStatus]]
  /\ all_exports_' = all_exports_ \ {r}
  /\ started_' = [started_ EXCEPT ![r] = FALSE]
  /\ printer_' = [printer_ EXCEPT ![r] = FALSE]
  /\ output_name_' = [output_name_ EXCEPT ![r] = NoName]
  /\ tmpfile_name_' = [tmpfile_name_ EXCEPT ![r] = NoName]
  /\ error_message_' = [error_message_ EXCEPT ![r] = NoName]
  /\ seen' = [seen EXCEPT ![r] = NotSeen]
  /\ given' = [given EXCEPT ![r] = [NotGiven EXCEPT !.valid = given[r].valid]]
  /\ UNCHANGED <<kind, fs, handled, errorBox, printed, notified, saved,
                 runvars, outvars,
                 reentered, parent>>

Next ==
  \E r \in Req :
    \/ ExportPS(r)
    \/ ExportPDF(r)
    \/ ChildOutput(r)
    \/ ChildExit(r)
    \/ ExitNotification(r)
    \/ UserCancel(r)
    \/ Destroy(r)

Spec == Init /\ [][Next]_vars

\* ------------------------------------------------------ find_exe by itself
\* The environments find_exe is looked at in: every value of PATH up to
\* MaxPathLen characters or none, every state of the file in the two
\* directories, and an absolute name in each state of its file.
ProbeEnvs ==
  [PATH : PathStrings \cup {Unset}, attr : [Dirs -> ExeStates],
   absolute : {FALSE}, own : {"absent"}]
  \cup
  [PATH : {Unset, <<"/", "a", ":", "/", "b">>}, attr : {[d \in Dirs |-> "ok"]},
   absolute : {TRUE}, own : ExeStates]

\* One request is created and what it is given, shown and told is
\* recorded.
SingleInit ==
  /\ NoRequests
  /\ fs \in {[f \in Files |-> "absent"],
             [f \in Files |-> IF f \in {DialogPS, DialogPDF}
                              THEN "readable" ELSE "absent"]}
  /\ parent \in {Renderer(page) : page \in 0..MaxPages}
  /\ requests = {1}
  /\ detail = TRUE
  /\ probe = NoProbe

SingleSpec == SingleInit /\ [][Next]_vars

FindInit ==
  /\ NoRequests
  /\ fs = [f \in Files |-> "absent"]
  /\ parent = Renderer(0)
  /\ requests = {}
  /\ detail = FALSE
  /\ probe \in [env : ProbeEnvs, done : {FALSE}, found : {FALSE}]

\* find_exe(exe_) is called and returns.
Resolve ==
  /\ ~probe.done
  /\ probe' = [probe EXCEPT !.done = TRUE, !.found = find_exe(probe.env)]
  /\ UNCHANGED <<objvars, kprocess, fs, all_exports_, obsvars, requests,
                 detail, outvars, reentered, ctorvars>>

FindNext == Resolve

FindSpec == FindInit /\ [][FindNext]_vars


\* ---------------------------------------------------------------- claims
\* The input path in an argument vector: the element before "-o".
InputArg(args) ==
  LET i == CHOOSE j \in 1..Len(args) : args[j] = "-o" IN args[i - 1]

Times(seq, x) == Cardinality({i \in DOMAIN seq : seq[i] = x})

\* The supervisor state of a request: the last transition it took.
SupervisorState(r) ==
  IF handled[r] # << >>
  THEN (IF handled[r][Len(handled[r])] = "abort" THEN "Aborted" ELSE "Finished")
  ELSE IF started_[r] THEN "Running"
  ELSE IF process_[r] # "null" THEN "Starting"
  ELSE "Idle"

AbortedFirst(r) == handled[r] # << >> /\ handled[r][1] = "abort"
FinishedFirst(r) == handled[r] # << >> /\ handled[r][1] = "finished"

\* No event of the event loop is pending or possible for the request.
Quiet(r) ==
  ~ENABLED (ChildOutput(r) \/ ChildExit(r) \/ ExitNotification(r)
              \/ UserCancel(r))

\* A launched PS export whose object exists.
LaunchedPS(r) ==
  obj[r] = "alive" /\ kind[r] = "PS" /\ kprocess[r].command = "dvips"

\* C1: for a PS export that wrote a temporary file, once the request is
\* Finished or Aborted the temporary file no longer exists.
C1_TmpFileGoneAtTerminalState ==
  \A r \in Req :
    (kind[r] = "PS" /\ saved[r] # NoName /\ handled[r] # << >>)
      => ~Exists(saved[r])

\* C2: the handler that runs first, abort or finish, decides the terminal
\* state and the other never runs: after abort first the state is Aborted
\* and not Finished, also when the child had already exited.
C2_FirstHandlerDecides ==
  \A r \in Req :
    /\ AbortedFirst(r) => SupervisorState(r) = "Aborted"
    /\ FinishedFirst(r) => SupervisorState(r) = "Finished"
    /\ Len(handled[r]) <= 1

\* C2 witness: abort was handled while the child's exit was not yet
\* notified.
C2_Witness ==
  \E r \in Req :
    /\ obj[r] = "alive"
    /\ handled[r] = <<"abort">>
    /\ kprocess[r].child = "exited"

\* C3: after abort was handled, no error box is shown, nothing is handed
\* to the printer and the finish handler does not run for the request.
C3_NothingReportedAfterAbort ==
  \A r \in Req :
    AbortedFirst(r) =>
      /\ errorBox[r] = << >>
      /\ printed[r] = << >>
      /\ notified[r] = 0
      /\ Times(handled[r], "finished") = 0

\* C3 witness: an aborted PS export with a printer whose child had exited
\* with a failure and had written the output file.
C3_Witness ==
  \E r \in Req :
    /\ obj[r] = "alive"
    /\ kind[r] = "PS"
    /\ AbortedFirst(r)
    /\ given[r].printer
    /\ kprocess[r].child = "exited"
    /\ kprocess[r].exitStatus = 1
    /\ Exists(output_name_[r])

\* C4: a file is handed to printFiles only if a printer was attached and
\* the converter's exit code was 0.
C4_PrintOnlyAfterSuccess ==
  \A r \in Req :
    (obj[r] = "alive" /\ printed[r] # << >>) =>
      /\ given[r].printer
      /\ kprocess[r].exitStatus = 0

\* C5: when the exit of a non-aborted request is handled, the error
\* message is shown if and only if the exit code is not 0, after a normal
\* and after an abnormal termination alike.
C5_ErrorShownIffFailed ==
  \A r \in Req :
    FinishedFirst(r) =>
      ((errorBox[r] # << >>) <=> kprocess[r].exitStatus # 0)

\* C6: export_finished(this) is called exactly once for each handled exit
\* notification, whatever the exit status and the state of the dialog.
C6_OwnerNotifiedOncePerExit ==
  \A r \in Req : notified[r] = Times(handled[r], "finished")

\* C6 witness: the exit of a child that failed was handled while the
\* progress dialog had never been shown, and the owner was notified.
C6_Witness ==
  \E r \in Req :
    /\ obj[r] = "alive"
    /\ handled[r] = <<"finished">>
    /\ kprocess[r].exitStatus = 1
    /\ errorBox[r] # << >>
    /\ progress_[r] = "hidden"
    /\ notified[r] = 1

\* C7: a request in a terminal state, Finished or Aborted, for which no
\* event remains to be handled has been removed from the owner's
\* collection of active requests.
C7_TerminalRequestLeavesRegistry ==
  \A r \in Req :
    (handled[r] # << >> /\ Quiet(r)) => r \notin all_exports_

\* C8: after a constructor whose preconditions failed, no process exists,
\* started_ is false, no temporary file was named or written and the
\* progress dialog was not initialised.
C8_FailedPreconditionCreatesNothing ==
  \A r \in Req :
    (obj[r] # "unborn" /\ ~given[r].valid) =>
      /\ process_[r] = "null"
      /\ kprocess[r] = NoProcess
      /\ ~started_[r]
      /\ tmpfile_name_[r] = NoName
      /\ saved[r] = NoName
      /\ ~Exists(TmpName(r))
      /\ progress_[r] = "null"
      /\ ~connected[r]

\* C8 witness: a PS export abandoned at the overwrite question, the last
\* of the checks.
C8_Witness ==
  \E r \in Req :
    /\ obj[r] = "alive"
    /\ kind[r] = "PS"
    /\ ~given[r].valid
    /\ output_name_[r] = DialogPS

\* C9: a validated PS export writes a temporary file and passes it as the
\* converter's input exactly when the options are non-empty or the
\* document has a page size; otherwise no temporary file is named or
\* written and the input is the document's own path.
C9_RewriteIffOptionsOrPageSize ==
  \A r \in Req :
    (LaunchedPS(r) /\ given[r].valid) =>
      IF given[r].sizeOrOptions
      THEN /\ saved[r] = TmpName(r)
           /\ InputArg(kprocess[r].args) = TmpName(r)
           /\ tmpfile_name_[r] \in {TmpName(r), NoName}
           /\ (handled[r] = << >> => tmpfile_name_[r] = TmpName(r))
      ELSE /\ saved[r] = NoName
           /\ tmpfile_name_[r] = NoName
           /\ ~Exists(TmpName(r))
           /\ InputArg(kprocess[r].args) = given[r].input

\* C9 witness: a PS export without options of a document with a page
\* size, running on its temporary file.
C9_Witness ==
  \E r \in Req :
    /\ LaunchedPS(r)
    /\ given[r].valid
    /\ given[r].options = << >>
    /\ given[r].sizeOrOptions
    /\ InputArg(kprocess[r].args) = TmpName(r)
    /\ Exists(TmpName(r))

\* C10: the arguments of dvips are "-z" exactly when no printer is
\* attached, then the options in their order, then the input path, "-o"
\* and the output path.
C10_DvipsArguments ==
  \A r \in Req :
    (LaunchedPS(r) /\ given[r].valid) =>
      LET input == IF given[r].sizeOrOptions THEN TmpName(r)
                   ELSE given[r].input
      IN  kprocess[r].args =
            (IF given[r].printer THEN << >> ELSE <<"-z">>)
              \o given[r].options
              \o <<input, "-o", output_name_[r]>>

\* C10 witness: dvips started for a printer with two options.
C10_Witness ==
  \E r \in Req :
    /\ LaunchedPS(r)
    /\ kprocess[r].args = <<"-pp", "3", TmpName(r), "-o", CallerPS>>

\* The directories of PATH in which the file exists, by their position.
Hits(env) ==
  {i \in 1..Len(get_env_path(env)) :
     Candidate(env.attr, get_env_path(env)[i]) # "absent"}

\* C11: for a name that is not absolute, find_exe succeeds exactly when
\* some directory of PATH holds the file and the file in the first such
\* directory is readable and executable; it fails when PATH is unset or
\* empty or no directory holds the file.
C11_FirstExistingCandidateDecides ==
  (probe.done /\ ~probe.env.absolute) =>
    LET path == get_env_path(probe.env)
        hits == Hits(probe.env)
        first == CHOOSE i \in hits : \A j \in hits : i <= j
    IN  /\ probe.found =
             (hits # {} /\ Candidate(probe.env.attr, path[first]) = "ok")
        /\ (probe.env.PATH \in {Unset, << >>} => ~probe.found)

\* C11 witness: PATH is "/a:/b", the file lies only in /b and is found.
C11_Witness ==
  /\ probe.done
  /\ ~probe.env.absolute
  /\ probe.env.PATH = <<"/", "a", ":", "/", "b">>
  /\ probe.env.attr[DirA] = "absent"
  /\ probe.env.attr[DirB] = "ok"
  /\ probe.found

\* The request passed every check and the start of its converter failed.
LaunchFailed(r) ==
  obj[r] # "unborn" /\ given[r].valid /\ kprocess[r].child = "none"

\* C12: when the start of the converter failed, the request's resources
\* are released at the latest when the request is destroyed: the
\* temporary file it wrote is deleted and its process object is deleted.
C12_LaunchFailureReleasesResources ==
  \A r \in Req :
    (LaunchFailed(r) /\ obj[r] = "destroyed") =>
      /\ ~kprocess[r].object
      /\ saved[r] # NoName => ~Exists(saved[r])

\* The moves of the supervisor state.  A constructor runs start to its
\* end, so it takes a request from Idle to Starting (the start failed) or
\* through Starting to Running.
SupervisorMoves ==
  {<<"Idle", "Starting">>, <<"Idle", "Running">>, <<"Starting", "Running">>,
   <<"Running", "Finished">>, <<"Running", "Aborted">>}

\* SupervisorState in the next state.
SupervisorStateNext(r) ==
  IF handled'[r] # << >>
  THEN (IF handled'[r][Len(handled'[r])] = "abort" THEN "Aborted"
        ELSE "Finished")
  ELSE IF started_'[r] THEN "Running"
  ELSE IF process_'[r] # "null" THEN "Starting"
  ELSE "Idle"

\* C13: while a request exists its supervisor state moves only along
\* Idle -> Starting -> Running -> {Finished, Aborted}; a process is
\* created for it only once, by its constructor and with process_ null;
\* Finished is reached from Running only, and a request that is Finished
\* or Aborted stays so.
C13_SupervisorStateMachine ==
  [][\A r \in Req :
       /\ obj'[r] # "destroyed" =>
            \/ SupervisorStateNext(r) = SupervisorState(r)
            \/ <<SupervisorState(r), SupervisorStateNext(r)>>
                 \in SupervisorMoves
       /\ (~kprocess[r].object /\ kprocess'[r].object) =>
            (obj[r] = "unborn" /\ process_[r] = "null")
       /\ SupervisorState(r) \in {"Finished", "Aborted"} =>
            SupervisorStateNext(r) = SupervisorState(r)]_vars

\* C13 witness: one request is Finished after its child ran and exited,
\* the other is still Starting because its converter could not be started.
C13_Witness ==
  \E r, q \in Req :
    /\ obj[r] = "alive" /\ obj[q] = "alive"
    /\ SupervisorState(r) = "Finished"
    /\ started_[r]
    /\ kprocess[r].child = "reaped"
    /\ SupervisorState(q) = "Starting"
    /\ LaunchFailed(q)

\* An event of the event loop is handled for the request: an output chunk,
\* the exit notification or the abort.
EventHandled(r) == ChildOutput(r) \/ ExitNotification(r) \/ UserCancel(r)

\* C14: an event handled for one request leaves every other request's
\* process, progress dialog, temporary file, printer and supervisor state
\* as they were.
C14_EventsLeaveOtherRequestsAlone ==
  [][\A r \in Req :
       EventHandled(r) =>
         \A q \in Req \ {r} :
           /\ process_'[q] = process_[q]
           /\ kprocess'[q] = kprocess[q]
           /\ progress_'[q] = progress_[q]
           /\ connected'[q] = connected[q]
           /\ tmpfile_name_'[q] = tmpfile_name_[q]
           /\ saved[q] # NoName => fs'[saved[q]] = fs[saved[q]]
           /\ printer_'[q] = printer_[q]
           /\ SupervisorStateNext(q) = SupervisorState(q)]_vars

\* C14 witness: two PS exports with temporary files were running side by
\* side with a printer each; one was aborted and lost its file, the other
\* is still running, has its file and its dialog is shown.
C14_Witness ==
  \E r, q \in Req :
    /\ LaunchedPS(r) /\ LaunchedPS(q)
    /\ handled[r] = <<"abort">>
    /\ saved[r] # NoName /\ ~Exists(saved[r])
    /\ SupervisorState(q) = "Running"
    /\ kprocess[q].child = "running"
    /\ progress_[q] = "visible"
    /\ printer_[q]
    /\ tmpfile_name_[q] # NoName /\ Exists(tmpfile_name_[q])

\* The request was destroyed while its child was running: no handler had
\* run for it and the destructor killed the child.
DestroyedWhileRunning(r) ==
  obj[r] = "destroyed" /\ handled[r] = << >> /\ kprocess[r].child = "killed"

\* C15: no child is running without a live request that owns its process,
\* and a request destroyed while its child was running has released what
\* abort releases: the process object and the temporary file.
C15_DestructionAborts ==
  \A r \in Req :
    /\ kprocess[r].child = "running" =>
         (obj[r] = "alive" /\ process_[r] = "live")
    /\ DestroyedWhileRunning(r) =>
         /\ ~kprocess[r].object
         /\ saved[r] # NoName => ~Exists(saved[r])

\* C16: every call of output_receiver with buflen > 0 passes the first
\* buflen bytes of its buffer to update_info_dialog, once and in the order
\* of arrival; a call with buflen <= 0 passes nothing and does not show
\* the dialog; after abort nothing arrives and nothing is passed on.
C16_ChunksForwardedOnceInOrder ==
  [][\A r \in Req :
       /\ arrived'[r] # arrived[r] =>
            LET chunk == arrived'[r][Len(arrived'[r])]
            IN  /\ arrived'[r] = Append(arrived[r], chunk)
                /\ ~AbortedFirst(r)
                /\ info'[r] =
                     IF chunk.buflen > 0
                     THEN Append(info[r],
                                 SubSeq(chunk.buffer, 1, chunk.buflen))
                     ELSE info[r]
                /\ (chunk.buflen <= 0 => progress_'[r] = progress_[r])
       /\ arrived'[r] = arrived[r] => info'[r] = info[r]
       /\ (progress_'[r] = "visible" /\ progress_[r] # "visible") =>
            info'[r] # info[r]]_vars

\* C16 witness: two chunks arrived, the first of one new byte in a buffer
\* that holds an older byte behind it, then an empty one; one text of one
\* byte was passed on and the dialog is shown.
C16_Witness ==
  \E r \in Req :
    /\ detail
    /\ Len(arrived[r]) = 2
    /\ arrived[r][1] = [buffer |-> <<"x", "y">>, buflen |-> 1]
    /\ arrived[r][2].buflen = 0
    /\ info[r] = << <<"x">> >>
    /\ progress_[r] = "visible"

\* C17: no handler's hide() calls abort_process() again, and the abort
\* handler, which deletes the dialog and the process and removes the
\* temporary file, runs at most once for a request.
C17_CancellationNotReentrant ==
  \A r \in Req :
    /\ ~reentered[r]
    /\ Times(handled[r], "abort") <= 1

\* C17 witness: the abort handler ran for a request whose dialog was shown
\* and connected, hid and deleted it, and the request's child had been
\* running.
C17_Witness ==
  \E r \in Req :
    /\ obj[r] = "alive"
    /\ handled[r] = <<"abort">>
    /\ progress_[r] = "null"
    /\ ~connected[r]
    /\ kprocess[r].child = "killed"

\* A PS export whose object exists and whose constructor was recorded.
RecordedPS(r) == obj[r] = "alive" /\ kind[r] = "PS" /\ seen[r].recorded

\* C18: a PS export of a document with zero pages or an empty page table
\* that passes every other check goes ahead without rewriting: dvips is
\* given the document itself and no temporary file is named or written.
C18_NoPagesSkipsRewrite ==
  \A r \in Req :
    (RecordedPS(r) /\ seen[r].othersOK
       /\ (seen[r].pages = 0 \/ seen[r].emptyTable)) =>
      /\ kprocess[r].command = "dvips"
      /\ InputArg(kprocess[r].args) = DviFileName
      /\ saved[r] = NoName
      /\ ~Exists(TmpName(r))

\* C18 as amended: with an empty page table the export is abandoned and
\* nothing is created; with a page table, whether the temporary file is
\* written depends on the options and the page size only, also for a
\* document of zero pages.
C18_EmptyTableAbandonsElseByOptions ==
  \A r \in Req :
    RecordedPS(r) =>
      /\ seen[r].emptyTable =>
           /\ kprocess[r] = NoProcess
           /\ process_[r] = "null"
           /\ progress_[r] = "null"
           /\ saved[r] = NoName
           /\ ~Exists(TmpName(r))
      /\ (~seen[r].emptyTable /\ seen[r].othersOK) =>
           /\ kprocess[r].command = "dvips"
           /\ (saved[r] = TmpName(r)) <=> given[r].sizeOrOptions
           /\ InputArg(kprocess[r].args) =
                (IF given[r].sizeOrOptions THEN TmpName(r) ELSE DviFileName)

\* C18 witness: a document of zero pages with a page table was exported
\* with options: its temporary copy was written and given to dvips.
C18_Witness ==
  \E r \in Req :
    /\ RecordedPS(r)
    /\ seen[r].pages = 0
    /\ ~seen[r].emptyTable
    /\ given[r].options # << >>
    /\ saved[r] = TmpName(r)
    /\ Exists(TmpName(r))
    /\ InputArg(kprocess[r].args) = TmpName(r)

\* C19: when the file dialog supplied the output name, the overwrite
\* question is asked exactly when that file already exists; after Cancel
\* no process exists; a name supplied by the caller is used without the
\* file dialog and without the question.
C19_OverwriteAskedIffFileExists ==
  \A r \in Req :
    (obj[r] = "alive" /\ seen[r].recorded) =>
      /\ seen[r].interactive => (seen[r].asked <=> seen[r].existed)
      /\ seen[r].cancelled =>
           (kprocess[r] = NoProcess /\ process_[r] = "null" /\ ~started_[r])
      /\ output_name_[r] = CallerPS =>
           (~seen[r].interactive /\ ~seen[r].asked)

\* The pointers the renderer holds: its document and its scanning state.
RendererPointers(p) ==
  {p.dviFile, p.command_pointer, p.end_pointer, p.fonttable}

\* C20: the constructor of a PS export that wrote the temporary copy
\* leaves parent.dviFile and parent.current_page as they were, whatever
\* the page count, and leaves the renderer no pointer to the temporary
\* dvifile newFile, which is destroyed when the pass ends.
C20_PageSizePassLeavesRendererAlone ==
  [][\A r \in Req :
       (obj[r] = "unborn" /\ obj'[r] = "alive" /\ saved'[r] # NoName) =>
         /\ parent'.dviFile = parent.dviFile
         /\ parent'.current_page = parent.current_page
         /\ "newFile" \notin RendererPointers(parent')]_vars

=============================================================================
